---- MODULE Spec2Model ----
(***************************************************************************)
(* Price reconciliation run of PriceMonitor (src/price_monitor.py) on top  *)
(* of ACDCCrawler (src/crawler.py).                                        *)
(*                                                                         *)
(* Money is an integer number of thousandths of a rand ("mills"):          *)
(* 100.004 is 100004, 161.00 is 161000.  A value rounded to 2 decimal      *)
(* places is a multiple of 10.                                             *)
(***************************************************************************)
EXTENDS Integers, Sequences, FiniteSets, TLC

VARIABLES
    pc,                 \* position of check_all_prices
    sheet,              \* the spreadsheet rows from row 2 on (sheet[k] is row k+1)
    batch_size,         \* PriceMonitor.batch_size
    markup_percentage,  \* argument of check_all_prices
    read_outcome,       \* how sheet.values().get(...).execute() ended
    values,             \* result['values'] as read at run start
    sku_data,           \* dict built by get_skus_and_data, in key order
    batch_num,          \* batch_crawl: index of the current batch
    threads,            \* batch_crawl: indices in sku_list of running workers
    crawl_results,      \* ACDCCrawler.results, in insertion order
    all_updates,        \* process_updates: the rows to write
    i,                  \* process_updates: offset of the current batch
    attempt,            \* update_batch: the loop variable
    results,            \* process_updates: the defaultdict
    writes,             \* history: one entry per batch handed to update_batch
    ret,                \* what check_all_prices returned
    phases,             \* history: the phases the run has entered, in order
    sku_list,           \* batch_crawl: the argument sku_list
    crawl_bs,           \* batch_crawl: the argument batch_size
    lookups,            \* history: per index of sku_list, what process_sku did
    cancelled,          \* history: cancel_event was set during the crawl
    cancel_at,          \* history: how many batches had started by then
    dIn,                \* inputs of one row computation (SpecDiff)
    dOut,               \* the row computed from dIn (SpecDiff)
    runs,               \* per invocation of check_all_prices: where it is
    ledger,             \* the shared sheet: per data row, who wrote it last
    now,                \* time.time(), in seconds
    lim,                \* RateLimiter: lock, semaphore, last_release_time
    workers,            \* per worker thread: position in get_price_with_rate_limit
    price_text,          \* _extract_price: price_text as transformed so far
    ex,                 \* _extract_price: position and outcome
    key_in,             \* a SKU as the sheet holds it
    key_used,           \* the keys the program derives from key_in
    ub,                 \* one call of update_batch: position, attempts made
    sync,               \* main.py: cancel_event, the upload thread, /cancel
    link,               \* get_price: the search page and the link followed
    shared,             \* one ACDCCrawler used by several crawls at a time
    pool                \* the worker threads of a crawl and their limiter

vars == <<pc, sheet, batch_size, markup_percentage, read_outcome, values,
          sku_data, batch_num, threads, crawl_results, all_updates, i,
          attempt, results, writes, ret, phases, sku_list, crawl_bs, lookups,
          cancelled, cancel_at, dIn, dOut, runs, ledger, now, lim, workers,
          price_text, ex, key_in, key_used, ub, sync, link, shared, pool>>

runVars == <<pc, sheet, batch_size, markup_percentage, read_outcome, values,
             sku_data, batch_num, threads, crawl_results, all_updates, i,
             attempt, results, writes, ret, phases>>

\* the call of batch_crawl and what is recorded about it
crawlVars == <<sku_list, crawl_bs, lookups>>

cancelVars == <<cancelled, cancel_at>>

diffVars == <<dIn, dOut>>

\* concurrent invocations of check_all_prices on one sheet
overlapVars == <<runs, ledger>>

\* the RateLimiter and the threads that call it
limiterVars == <<now, lim, workers>>

\* one call of _extract_price
extractVars == <<price_text, ex>>

\* one SKU on its way from the sheet to the lookup and back
keyVars == <<key_in, key_used>>

\* update_batch alone, the upload thread of main.py, the link get_price
\* follows, a crawler shared by two crawls, a crawl with its limiter
otherVars == <<ub, sync, link, shared, pool>>

----------------------------------------------------------------------------
(* Bounds of the model *)

\* most data rows a sheet holds
MaxRows == 3
\* batch_size ranges over 1..MaxBatch (the source sets 30)
MaxBatch == 2
\* most invocations of check_all_prices at a time
MaxRuns == 2
\* worker threads that call the request limiter
MaxWorkers == 2
\* the clock stops at MaxTime seconds
MaxTime == 4
\* every text of at most MaxLen characters of Alphabet is an input
MaxLen == 3
\* a SKU has 1..MaxSku characters of SkuAlphabet
MaxSku == 3
\* most <a> elements on a search results page
MaxLinks == 2

(* Program constants *)

\* update_batch: max_retries
max_retries == 3
\* update_batch: retry_delay, in seconds
retry_delay == 2
\* batch_crawl: default batch_size, the one targeted_crawl uses
crawl_batch_size == 5
\* process_updates: first data row of the sheet
first_row == 2
\* check_all_prices: default markup_percentage
default_markup == 40
\* calculate_variant_price: the VAT factor 1.15, in percent
vat_factor == 115
\* ACDCCrawler.__init__: RateLimiter(max_per_minute=30) for requests
max_per_minute == 30
\* _extract_price: exclusive upper limit of a price
price_limit == 1000000

SKUs == {"A", "B", "C"}
\* recorded prices a full sheet row holds in a run (120.00)
RecordedPrices == {120000}
\* prices a lookup yields in a run (100.00)
CrawlPrices == {100000}
\* get_price returned None (or raised inside and logged)
None == -1
\* a cell that was never written
NoCell == -1

----------------------------------------------------------------------------
(* Python dicts, kept as sequences of entries in insertion order *)

Range(s) == {s[k] : k \in 1..Len(s)}

Keys(d) == {d[k].sku : k \in 1..Len(d)}

KeyList(d) == [k \in 1..Len(d) |-> d[k].sku]

IndexOf(d, sku) == CHOOSE k \in 1..Len(d) : d[k].sku = sku

\* d[key] = entry: a new key goes last, an old key keeps its place
DictPut(d, entry) ==
    IF entry.sku \in Keys(d)
    THEN [d EXCEPT ![IndexOf(d, entry.sku)] = entry]
    ELSE Append(d, entry)

\* defaultdict(int): d[key] += n creates the key at 0 first
DefaultAdd(d, key, n) ==
    [k \in DOMAIN d \cup {key} |->
        IF k = key THEN (IF key \in DOMAIN d THEN d[key] ELSE 0) + n ELSE d[k]]

----------------------------------------------------------------------------
(* Sheet rows.  cells is len(row) as the API returns it. *)

BlankRow ==
    [cells |-> 0, sku |-> "", title |-> "", price |-> 0, acdc |-> NoCell,
     diff |-> NoCell, checked |-> "", status |-> "", variant |-> NoCell]

\* a row holding only column A
SkuRow(sku) == [BlankRow EXCEPT !.cells = 1, !.sku = sku]

\* a row holding columns A..C
FullRow(sku, price) ==
    [BlankRow EXCEPT !.cells = 3, !.sku = sku, !.title = "T", !.price = price]

RawRows ==
    {BlankRow} \cup {SkuRow(s) : s \in SKUs}
               \cup {FullRow(s, p) : s \in SKUs, p \in RecordedPrices}

\* the API returns empty rows between data rows as [], and none after the
\* last data row
Sheets ==
    {rows \in UNION {[1..n -> RawRows] : n \in 0..MaxRows} :
        rows # <<>> => rows[Len(rows)] # BlankRow}

----------------------------------------------------------------------------
(* get_skus_and_data, lines 78-90: the loop over result['values'] *)

RECURSIVE BuildSkuData(_, _)
BuildSkuData(rows, acc) ==
    IF rows = <<>> THEN acc
    ELSE LET row == Head(rows)
             entry == [sku |-> row.sku,
                       title |-> IF row.cells > 1 THEN row.title ELSE "",
                       current_price |-> IF row.cells > 2 THEN row.price ELSE 0]
         IN  BuildSkuData(Tail(rows),
                          IF row.cells >= 1 THEN DictPut(acc, entry) ELSE acc)

\* what get_skus_and_data returns: {} when the read raised or gave no values
get_skus_and_data(outcome, rows) ==
    IF outcome = "raise" THEN <<>> ELSE BuildSkuData(rows, <<>>)

----------------------------------------------------------------------------
(* round(x, 2) of a Python float.  x is num/den mills, den > 0; the result *)
(* is in mills.  Away from a tie the nearest hundredth is returned.  On an *)
(* exact decimal tie the binary double computed by the code lies a little  *)
(* below or a little above the tie (0.5*1.4*1.15 is 0.80499999..., and     *)
(* 2.1*1.15 is 2.4150000...1), so either neighbour can be the result.      *)

PyRound2(num, den) ==
    LET d == 10 * den
        lo == num \div d
        r == num % d
    IN  IF 2 * r < d THEN {10 * lo}
        ELSE IF 2 * r > d THEN {10 * (lo + 1)}
        ELSE {10 * lo, 10 * (lo + 1)}

\* calculate_variant_price: price * (1 + markup/100) * 1.15, then round(_, 2)
calculate_variant_price(acdc_price, markup) ==
    PyRound2(acdc_price * (100 + markup) * vat_factor, 10000)

\* line 150 with the operands swapped
price_difference_swapped(current_price, new_price) ==
    IF current_price # 0 /\ new_price # 0
    THEN PyRound2(new_price - current_price, 1)
    ELSE {0}

\* process_updates line 150
price_difference(current_price, new_price) ==
    IF current_price # 0 /\ new_price # 0
    THEN PyRound2(current_price - new_price, 1)
    ELSE {0}

\* process_updates line 160: column G
row_status(current_price, new_price) == "ACDC Dynamic Updated"

\* process_updates lines 146-162: the rows the loop body can build for one
\* item of price_data (more than one only on a rounding tie)
row_data(sku, data, skus, markup) ==
    LET known == sku \in Keys(skus)
        current_price == IF known THEN skus[IndexOf(skus, sku)].current_price ELSE 0
        title == IF known THEN skus[IndexOf(skus, sku)].title ELSE ""
        new_price == data.price
    IN  {[cells |-> 8, sku |-> sku, title |-> title, price |-> current_price,
          acdc |-> new_price, diff |-> pd, checked |-> "timestamp",
          status |-> row_status(current_price, new_price), variant |-> vp] :
            pd \in price_difference(current_price, new_price),
            vp \in calculate_variant_price(new_price, markup)}

\* process_updates lines 145-163: all_updates, in the order of price_data
AllUpdates(price_data, skus, markup) ==
    LET n == Len(price_data)
        choice == [k \in 1..n |-> row_data(price_data[k].sku, price_data[k], skus, markup)]
    IN  {u \in [1..n -> UNION Range(choice)] : \A k \in 1..n : u[k] \in choice[k]}

\* process_updates lines 167-169: the slice all_updates[i:i + batch_size]
BatchAt(updates, at, size) ==
    [k \in 1..(IF Len(updates) - at < size THEN Len(updates) - at ELSE size)
        |-> updates[at + k]]

\* process_updates lines 176-178: one aggregated entry naming the batch's SKUs
BatchError(batch) ==
    [msg |-> "Failed to update batch with SKUs", skus |-> KeyList(batch)]

ErrorMsg(text) == [msg |-> text, skus |-> <<>>]

\* update_batch lines 106-116: the range A{start_row}:H{start_row+len-1} replaced
WriteRange(rows, batch, start_row) ==
    [k \in 1..Len(rows) |->
        IF k + 1 >= start_row /\ k + 1 < start_row + Len(batch)
        THEN batch[k + 2 - start_row]
        ELSE rows[k]]

----------------------------------------------------------------------------
(* check_all_prices: the decisions and the handlers *)

NoRet == [none |-> TRUE]

Returned(r) == [pc |-> "done", ret |-> r]

\* line 194 with the check left out
no_skus_unchecked(skus) == FALSE

\* line 194: if not sku_data
no_skus(skus) == skus = <<>>

\* lines 196-200
no_skus_result ==
    Returned([updated |-> 0, failed |-> 0,
              errors |-> <<ErrorMsg("No SKUs found in sheet")>>])

\* lines 206-212
no_prices_result(skus) ==
    Returned([updated |-> 0, failed |-> Len(skus),
              errors |-> <<ErrorMsg("No prices found")>>])

\* lines 219-226 with the exception raised again
check_all_prices_reraise(text) == [pc |-> "raised", ret |-> NoRet]

\* lines 219-226: except Exception as e
check_all_prices_except(text) ==
    Returned([updated |-> 0, failed |-> 0, errors |-> <<ErrorMsg(text)>>])

\* batch_crawl line 223
total_batches(n) == (n + crawl_bs - 1) \div crawl_bs

\* lines 231-233 with the slice one long
batch_indices_long(n, b) ==
    {k \in 1..n : b * crawl_bs < k /\ k <= (b + 1) * crawl_bs + 1}

\* lines 231-233 with the slice one short
batch_indices_short(n, b) ==
    {k \in 1..n : b * crawl_bs < k /\ k < (b + 1) * crawl_bs}

\* batch_crawl lines 231-233: the indices of sku_list in batch number b
batch_indices(n, b) ==
    {k \in 1..n : b * crawl_bs < k /\ k <= (b + 1) * crawl_bs}

\* what get_price can end in: a price, no price on the pages, a response
\* that is not 200, an exception (caught at line 184)
LookupKinds == {"price", "not_found", "http_error", "exception"}

\* get_price lines 110-187: only a price found is returned, all else is None
get_price(kind, price) == IF kind = "price" THEN price ELSE None

\* process_sku has not run for an index / has run n times, storing or not
NotLooked == [n |-> 0, ok |-> FALSE]

\* process_sku lines 204-213: a truthy price is stored under result_lock
store_result(res, sku, price) ==
    IF price # None THEN DictPut(res, [sku |-> sku, price |-> price]) ELSE res

\* lines 121-134 with a batch that ran out of rate-limit retries taken as
\* written
update_batch_step_optimistic(outcome, att) ==
    IF outcome = "ok" THEN "true"
    ELSE IF outcome = "rate_limit"
         THEN (IF att + 1 < max_retries THEN "retry" ELSE "true")
         ELSE (IF att = max_retries - 1 THEN "false" ELSE "retry")

\* lines 246-247 left out
joined_none(ths) == TRUE

\* batch_crawl lines 246-247: thread.join() has returned for every thread
joined(ths) == ths = {}

\* update_batch lines 102-134: what one attempt leads to
update_batch_step(outcome, att) ==
    IF outcome = "ok" THEN "true"
    ELSE IF outcome = "rate_limit"
         THEN (IF att + 1 < max_retries THEN "retry" ELSE "false")
         ELSE (IF att = max_retries - 1 THEN "false" ELSE "retry")

\* lines 171-179 with line 174 left out
account_errors_only(res, batch, success) ==
    IF success
    THEN DefaultAdd(res, "updated", Len(batch))
    ELSE [res EXCEPT !["errors"] = Append(@, BatchError(batch))]

\* lines 171-179 with failed counting batches, not rows
account_per_batch(res, batch, success) ==
    IF success
    THEN DefaultAdd(res, "updated", Len(batch))
    ELSE [DefaultAdd(res, "failed", 1)
             EXCEPT !["errors"] = Append(@, BatchError(batch))]

\* process_updates lines 171-179: the bookkeeping after update_batch returned
account(res, batch, success) ==
    IF success
    THEN DefaultAdd(res, "updated", Len(batch))
    ELSE [DefaultAdd(res, "failed", Len(batch))
             EXCEPT !["errors"] = Append(@, BatchError(batch))]

\* line 167 with a step of one row
next_offset_by_one(at, size) == at + 1

\* process_updates line 167: the offset of the batch after the one at `at`
next_offset(at, size) == at + size

----------------------------------------------------------------------------
(* The run: check_all_prices on one PriceMonitor *)

InitRun ==
    /\ pc = "idle"
    /\ sheet \in Sheets
    /\ batch_size \in 1..MaxBatch
    /\ markup_percentage = default_markup
    /\ read_outcome = "none"
    /\ values = <<>>
    /\ sku_data = <<>>
    /\ batch_num = 0
    /\ threads = {}
    /\ crawl_results = <<>>
    /\ all_updates = <<>>
    /\ i = 0
    /\ attempt = 0
    /\ results = [errors |-> <<>>]
    /\ writes = <<>>
    /\ ret = NoRet
    /\ phases = <<>>
    /\ sku_list = <<>>
    /\ crawl_bs = crawl_batch_size
    /\ lookups = <<>>

\* lines 191-204: read the sheet, return when there is nothing, else call
\* targeted_crawl (batch_crawl line 222 resets self.results)
ReadLedger ==
    /\ pc = "idle"
    /\ \E outcome \in {"ok", "raise"} :
        LET rows == IF outcome = "ok" THEN sheet ELSE <<>>
            skus == get_skus_and_data(outcome, rows)
        IN  /\ read_outcome' = outcome
            /\ values' = rows
            /\ sku_data' = skus
            /\ sku_list' = KeyList(skus)
            /\ lookups' = [k \in 1..Len(skus) |-> NotLooked]
            /\ IF no_skus(skus)
               THEN /\ pc' = no_skus_result.pc
                    /\ ret' = no_skus_result.ret
                    /\ phases' = Append(phases, "read")
               ELSE /\ pc' = "crawl_start"
                    /\ ret' = ret
                    /\ phases' = phases \o <<"read", "crawl">>
    /\ crawl_results' = <<>>
    /\ batch_num' = 0
    /\ crawl_bs' = crawl_batch_size
    /\ UNCHANGED <<sheet, batch_size, markup_percentage, threads, all_updates,
                   i, attempt, results, writes>>

\* batch_crawl lines 225-244: one worker thread per SKU of the batch
StartBatch ==
    /\ pc = "crawl_start"
    /\ batch_num < total_batches(Len(sku_list))
    /\ threads' = batch_indices(Len(sku_list), batch_num)
    /\ pc' = "crawl_run"
    /\ UNCHANGED <<sheet, batch_size, markup_percentage, read_outcome, values,
                   sku_data, batch_num, crawl_results, all_updates, i, attempt,
                   results, writes, ret, phases>>
    /\ UNCHANGED crawlVars

\* batch_crawl line 243: Thread.start() raises (no thread can be created);
\* the exception leaves targeted_crawl and is caught at line 219
CrawlRaises ==
    /\ pc = "crawl_start"
    /\ batch_num < total_batches(Len(sku_list))
    /\ pc' = check_all_prices_except("can't start new thread").pc
    /\ ret' = check_all_prices_except("can't start new thread").ret
    /\ UNCHANGED <<sheet, batch_size, markup_percentage, read_outcome, values,
                   sku_data, batch_num, threads, crawl_results, all_updates, i,
                   attempt, results, writes, phases>>
    /\ UNCHANGED crawlVars

\* process_sku: the lookup yields a price or None; a price is stored under
\* result_lock
ProcessSku(t) ==
    /\ pc = "crawl_run"
    /\ t \in threads
    /\ \E kind \in LookupKinds, p \in CrawlPrices :
        LET price == get_price(kind, p)
        IN  /\ crawl_results' = store_result(crawl_results, sku_list[t], price)
            /\ lookups' = [lookups EXCEPT ![t] =
                               [n |-> @.n + 1, ok |-> price # None]]
    /\ threads' = threads \ {t}
    /\ UNCHANGED <<sku_list, crawl_bs>>
    /\ UNCHANGED <<pc, sheet, batch_size, markup_percentage, read_outcome,
                   values, sku_data, batch_num, all_updates, i, attempt,
                   results, writes, ret, phases>>

\* batch_crawl lines 246-247: every thread of the batch joined
JoinBatch ==
    /\ pc = "crawl_run"
    /\ joined(threads)
    /\ batch_num' = batch_num + 1
    /\ pc' = "crawl_start"
    /\ UNCHANGED <<sheet, batch_size, markup_percentage, read_outcome, values,
                   sku_data, threads, crawl_results, all_updates, i, attempt,
                   results, writes, ret, phases>>
    /\ UNCHANGED crawlVars

\* batch_crawl line 250 returns; check_all_prices lines 206-215 and
\* process_updates lines 138-164: nothing found ends the run, else the rows
\* are built
CrawlReturn ==
    /\ pc = "crawl_start"
    /\ batch_num >= total_batches(Len(sku_list))
    /\ IF crawl_results = <<>>
       THEN /\ pc' = no_prices_result(sku_data).pc
            /\ ret' = no_prices_result(sku_data).ret
            /\ phases' = phases
            /\ UNCHANGED <<all_updates, results>>
       ELSE /\ all_updates' \in AllUpdates(crawl_results, sku_data, markup_percentage)
            /\ results' = [errors |-> <<>>]
            /\ pc' = "write"
            /\ ret' = ret
            /\ phases' = phases \o <<"diff", "write">>
    /\ i' = 0
    /\ attempt' = 0
    /\ UNCHANGED <<sheet, batch_size, markup_percentage, read_outcome, values,
                   sku_data, batch_num, threads, crawl_results, writes>>
    /\ UNCHANGED crawlVars

\* one pass of the loop of update_batch for the batch at offset i; when
\* update_batch returns, process_updates lines 171-181 book the batch and go
\* on to the next one or return dict(results)
WriteAttempt ==
    /\ pc = "write"
    /\ \E outcome \in {"ok", "rate_limit", "error"} :
        LET batch == BatchAt(all_updates, i, batch_size)
            start_row == first_row + i
            step == update_batch_step(outcome, attempt)
            entry == [start_row |-> start_row, skus |-> KeyList(batch),
                      attempts |-> attempt + 1,
                      state |-> IF step = "retry" THEN "pending" ELSE step]
            booked == account(results, batch, step = "true")
            nxt == next_offset(i, batch_size)
        IN  /\ writes' = IF attempt = 0 THEN Append(writes, entry)
                         ELSE [writes EXCEPT ![Len(writes)] = entry]
            /\ sheet' = IF outcome = "ok" THEN WriteRange(sheet, batch, start_row)
                        ELSE sheet
            /\ IF step = "retry"
               THEN /\ attempt' = attempt + 1
                    /\ UNCHANGED <<i, results, pc, ret>>
               ELSE /\ attempt' = 0
                    /\ i' = nxt
                    /\ results' = booked
                    /\ IF nxt < Len(all_updates)
                       THEN UNCHANGED <<pc, ret>>
                       ELSE /\ pc' = "done"
                            /\ ret' = booked
    /\ UNCHANGED <<batch_size, markup_percentage, read_outcome, values,
                   sku_data, batch_num, threads, crawl_results, all_updates,
                   phases>>
    /\ UNCHANGED crawlVars

NoDiff == [current |-> 0, new |-> 0, markup |-> 0]

\* nothing outside the run moves during it
NoCancel ==
    /\ cancelled = FALSE
    /\ cancel_at = 0

\* no second invocation
NoOverlap ==
    /\ runs = <<>>
    /\ ledger = <<>>

\* no limiter in use
NoLimiter ==
    /\ now = 0
    /\ lim = <<>>
    /\ workers = <<>>

\* no text being parsed
NoExtract ==
    /\ price_text = <<>>
    /\ ex = <<>>

NoKey ==
    /\ key_in = <<>>
    /\ key_used = <<>>

\* update_batch is not being called on its own
NoBatch == ub = <<>>

\* no upload thread
NoSync == sync = <<>>

\* no search page open
NoLink == link = <<>>

\* the crawler is used by one crawl only
NoShared == shared = <<>>

\* no limiter attached to the workers
NoPool == pool = <<>>

NoOther ==
    /\ NoBatch
    /\ NoSync
    /\ NoLink
    /\ NoShared
    /\ NoPool

Init ==
    /\ InitRun
    /\ NoCancel
    /\ dIn = NoDiff
    /\ dOut = BlankRow
    /\ NoOverlap
    /\ NoLimiter
    /\ NoExtract
    /\ NoKey
    /\ NoOther

\* the variables no action of the run touches
auxVars == <<cancelled, cancel_at, dIn, dOut, overlapVars, limiterVars,
             extractVars, keyVars,
             otherVars>>

Next ==
    \/ ReadLedger /\ UNCHANGED auxVars
    \/ StartBatch /\ UNCHANGED auxVars
    \/ CrawlRaises /\ UNCHANGED auxVars
    \/ (\E t \in 1..MaxRows : ProcessSku(t)) /\ UNCHANGED auxVars
    \/ JoinBatch /\ UNCHANGED auxVars
    \/ CrawlReturn /\ UNCHANGED auxVars
    \/ WriteAttempt /\ UNCHANGED auxVars

Spec == Init /\ [][Next]_vars

----------------------------------------------------------------------------
(* The row computation of process_updates on its own: one item of          *)
(* price_data against one entry of sku_data, over a wider set of prices    *)

\* recorded prices: none, 99.99, 100.00, 100.01, 120.00
DiffRecorded == {0, 99990, 100000, 100010, 120000}
\* crawled prices: 0.50, 1.50, 100.00, 100.004, 100.005, 100.02
DiffNew == {500, 1500, 100000, 100004, 100005, 100020}
DiffMarkups == {0, 10, 40}

InitDiff ==
    /\ pc = "idle"
    /\ sheet = <<>>
    /\ batch_size = 1
    /\ markup_percentage = default_markup
    /\ read_outcome = "none"
    /\ values = <<>>
    /\ sku_data = <<>>
    /\ batch_num = 0
    /\ threads = {}
    /\ crawl_results = <<>>
    /\ all_updates = <<>>
    /\ i = 0
    /\ attempt = 0
    /\ results = [errors |-> <<>>]
    /\ writes = <<>>
    /\ ret = NoRet
    /\ phases = <<>>
    /\ sku_list = <<>>
    /\ crawl_bs = crawl_batch_size
    /\ lookups = <<>>
    /\ NoOverlap
    /\ NoLimiter
    /\ NoExtract
    /\ NoKey
    /\ NoOther
    /\ NoCancel
    /\ dIn \in [current : DiffRecorded, new : DiffNew, markup : DiffMarkups]
    /\ dOut = BlankRow

\* process_updates lines 145-163, one pass of the loop
ComputeRow ==
    /\ dOut = BlankRow
    /\ dOut' \in row_data("A", [sku |-> "A", price |-> dIn.new],
                          <<[sku |-> "A", title |-> "T",
                             current_price |-> dIn.current]>>,
                          dIn.markup)
    /\ UNCHANGED dIn
    /\ UNCHANGED runVars
    /\ UNCHANGED <<crawlVars, cancelVars, overlapVars, limiterVars,
                   extractVars, keyVars,
             otherVars>>

NextDiff == ComputeRow

SpecDiff == InitDiff /\ [][NextDiff]_vars

----------------------------------------------------------------------------
(* batch_crawl on its own: any list of SKUs (repeats included), any batch  *)
(* size, on a crawler whose results may hold an entry of an earlier crawl  *)

\* line 222 left out
reset_results_kept(res) == res

\* batch_crawl line 222: self.results = {}
reset_results(res) == <<>>

SkuLists == UNION {[1..n -> SKUs] : n \in 0..MaxRows}

StaleResults == {<<>>, <<[sku |-> "C", price |-> 120000]>>}

\* batch_crawl is called with a list and a batch size
CrawlCall ==
    /\ pc = "crawl_call"
    /\ sheet = <<>>
    /\ batch_size = 1
    /\ markup_percentage = default_markup
    /\ read_outcome = "none"
    /\ values = <<>>
    /\ sku_data = <<>>
    /\ batch_num = 0
    /\ threads = {}
    /\ crawl_results \in StaleResults
    /\ all_updates = <<>>
    /\ i = 0
    /\ attempt = 0
    /\ results = [errors |-> <<>>]
    /\ writes = <<>>
    /\ ret = NoRet
    /\ phases = <<>>
    /\ sku_list \in SkuLists
    /\ crawl_bs \in 1..MaxBatch
    /\ lookups = [k \in 1..Len(sku_list) |-> NotLooked]

InitCrawl ==
    /\ CrawlCall
    /\ NoOverlap
    /\ NoLimiter
    /\ NoExtract
    /\ NoKey
    /\ NoOther
    /\ NoCancel
    /\ dIn = NoDiff
    /\ dOut = BlankRow

\* batch_crawl lines 221-223
BatchCrawl ==
    /\ pc = "crawl_call"
    /\ crawl_results' = reset_results(crawl_results)
    /\ batch_num' = 0
    /\ pc' = "crawl_start"
    /\ UNCHANGED <<sheet, batch_size, markup_percentage, read_outcome, values,
                   sku_data, threads, all_updates, i, attempt, results, writes,
                   ret, phases>>
    /\ UNCHANGED crawlVars

\* batch_crawl lines 249-250: return self.results
BatchCrawlReturn ==
    /\ pc = "crawl_start"
    /\ batch_num >= total_batches(Len(sku_list))
    /\ pc' = "crawl_returned"
    /\ UNCHANGED <<sheet, batch_size, markup_percentage, read_outcome, values,
                   sku_data, batch_num, threads, crawl_results, all_updates, i,
                   attempt, results, writes, ret, phases>>
    /\ UNCHANGED crawlVars

\* batch_crawl line 243: Thread.start() raises and nothing in batch_crawl
\* catches it
BatchCrawlRaises ==
    /\ pc = "crawl_start"
    /\ batch_num < total_batches(Len(sku_list))
    /\ pc' = "crawl_raised"
    /\ UNCHANGED <<sheet, batch_size, markup_percentage, read_outcome, values,
                   sku_data, batch_num, threads, crawl_results, all_updates, i,
                   attempt, results, writes, ret, phases>>
    /\ UNCHANGED crawlVars

\* batches of the crawl that have started
batches_started == IF pc = "crawl_run" THEN batch_num + 1 ELSE batch_num

\* main.py line 210: cancel_event.set(), the one cancellation signal of the
\* program, while a crawl is between two batch starts.  Nothing in
\* crawler.py reads it.
Cancel ==
    /\ pc \in {"crawl_start", "crawl_run"}
    /\ batches_started >= 1
    /\ ~cancelled
    /\ cancelled' = TRUE
    /\ cancel_at' = batches_started
    /\ UNCHANGED runVars
    /\ UNCHANGED crawlVars

NextCrawl ==
    \/ BatchCrawl /\ UNCHANGED auxVars
    \/ StartBatch /\ UNCHANGED auxVars
    \/ BatchCrawlRaises /\ UNCHANGED auxVars
    \/ (\E t \in 1..MaxRows : ProcessSku(t)) /\ UNCHANGED auxVars
    \/ JoinBatch /\ UNCHANGED auxVars
    \/ BatchCrawlReturn /\ UNCHANGED auxVars
    \/ Cancel /\ UNCHANGED <<diffVars, overlapVars, limiterVars, extractVars,
                           keyVars, otherVars>>

SpecCrawl == InitCrawl /\ [][NextCrawl]_vars

----------------------------------------------------------------------------
(* Several invocations of check_all_prices on one sheet.  Each one is a    *)
(* PriceMonitor of its own (main.py builds one per request); the sheet is  *)
(* the one thing they share.                                               *)

\* no run of check_all_prices, no crawl, no row computation
Quiet ==
    /\ pc = "off"
    /\ sheet = <<>>
    /\ markup_percentage = default_markup
    /\ read_outcome = "none"
    /\ values = <<>>
    /\ sku_data = <<>>
    /\ batch_num = 0
    /\ threads = {}
    /\ crawl_results = <<>>
    /\ all_updates = <<>>
    /\ i = 0
    /\ attempt = 0
    /\ results = [errors |-> <<>>]
    /\ writes = <<>>
    /\ ret = NoRet
    /\ phases = <<>>
    /\ sku_list = <<>>
    /\ crawl_bs = crawl_batch_size
    /\ lookups = <<>>
    /\ NoCancel
    /\ dIn = NoDiff
    /\ dOut = BlankRow

Runs == 1..MaxRuns

NotInvoked == [pc |-> "idle", n |-> 0, priced |-> 0, i |-> 0]

\* the phases in which a run is crawling or writing
Busy == {"crawl", "write"}

InitOverlap ==
    /\ Quiet
    /\ batch_size \in 1..MaxBatch
    /\ runs = [r \in Runs |-> NotInvoked]
    /\ ledger \in {[k \in 1..n |-> 0] : n \in 0..MaxRows}
    /\ NoLimiter
    /\ NoExtract
    /\ NoKey
    /\ NoOther

notOverlap == <<pc, sheet, markup_percentage, read_outcome, values, sku_data,
                batch_num, threads, crawl_results, all_updates, i, attempt,
                results, writes, ret, phases, batch_size, crawlVars,
                cancelVars, diffVars, limiterVars, extractVars, keyVars,
             otherVars>>

\* check_all_prices lines 189-191: the entry; nothing is tested or set that
\* another invocation could see
Invoke(r) ==
    /\ runs[r].pc = "idle"
    /\ runs' = [runs EXCEPT ![r].pc = "read"]
    /\ UNCHANGED ledger

\* lines 193-200: get_skus_and_data, return when there are no SKUs
ReadRun(r) ==
    /\ runs[r].pc = "read"
    /\ runs' = [runs EXCEPT ![r] = [pc |-> IF Len(ledger) = 0 THEN "done"
                                          ELSE "crawl",
                                    n |-> Len(ledger), priced |-> 0, i |-> 0]]
    /\ UNCHANGED ledger

\* lines 203-212: targeted_crawl of the SKUs read, return when no price
\* came back
CrawlRun(r) ==
    /\ runs[r].pc = "crawl"
    /\ \E k \in 0..runs[r].n :
          runs' = [runs EXCEPT ![r].priced = k,
                               ![r].pc = IF k = 0 THEN "done" ELSE "write"]
    /\ UNCHANGED ledger

\* process_updates lines 166-181: one batch handed to update_batch, which
\* writes rows 2+i.. of the sheet or fails
WriteRun(r) ==
    /\ runs[r].pc = "write"
    /\ \E ok \in BOOLEAN :
          ledger' = [k \in 1..Len(ledger) |->
                        IF /\ ok
                           /\ runs[r].i < k
                           /\ k <= runs[r].i + batch_size
                           /\ k <= runs[r].priced
                        THEN r ELSE ledger[k]]
    /\ runs' = [runs EXCEPT
                  ![r].i = next_offset(@, batch_size),
                  ![r].pc = IF next_offset(runs[r].i, batch_size)
                                  >= runs[r].priced
                            THEN "done" ELSE "write"]

NextOverlap ==
    \/ (\E r \in Runs : Invoke(r)) /\ UNCHANGED notOverlap
    \/ (\E r \in Runs : ReadRun(r)) /\ UNCHANGED notOverlap
    \/ (\E r \in Runs : CrawlRun(r)) /\ UNCHANGED notOverlap
    \/ (\E r \in Runs : WriteRun(r)) /\ UNCHANGED notOverlap

SpecOverlap == InitOverlap /\ [][NextOverlap]_vars

----------------------------------------------------------------------------
(* The request limiter shared by the worker threads of a batch.  Time is   *)
(* in whole seconds; a thread is free to run at any time it is not blocked *)

Workers == 1..MaxWorkers

\* RateLimiter.__init__ line 22: 60.0 / max_per_minute
interval == 60 \div max_per_minute

\* no thread holds the Lock
NoThread == 0

NotStarted == -1

\* RateLimiter.__init__ lines 19-22, constructed at time 0
NewLimiter ==
    [semaphore |-> max_per_minute, lock |-> NoThread, last_release_time |-> 0]

\* acquire lines 26-29: the time until which the caller sleeps
sleep_until(current_time, last) ==
    IF current_time - last < interval
    THEN current_time + (interval - (current_time - last))
    ELSE current_time

InitLimiter ==
    /\ Quiet
    /\ batch_size = 1
    /\ NoOverlap
    /\ NoExtract
    /\ NoKey
    /\ NoOther
    /\ now = 0
    /\ lim = NewLimiter
    /\ workers = [t \in Workers |->
                     [pc |-> "call", wake |-> 0, started |-> NotStarted]]

notLimiter == <<pc, sheet, markup_percentage, read_outcome, values, sku_data,
                batch_num, threads, crawl_results, all_updates, i, attempt,
                results, writes, ret, phases, batch_size, crawlVars,
                cancelVars, diffVars, overlapVars, extractVars, keyVars,
             otherVars>>

\* time passes
Tick ==
    /\ now < MaxTime
    /\ now' = now + 1
    /\ UNCHANGED <<lim, workers>>

\* acquire lines 25-29: take the lock, read the clock, start the sleep
AcquireLock(t) ==
    /\ workers[t].pc = "call"
    /\ lim.lock = NoThread
    /\ lim' = [lim EXCEPT !.lock = t]
    /\ workers' = [workers EXCEPT
                     ![t].pc = "sleep",
                     ![t].wake = sleep_until(now, lim.last_release_time)]
    /\ UNCHANGED now

\* acquire line 29 and the end of the with block: the sleep is over, the
\* lock is released
WakeUp(t) ==
    /\ workers[t].pc = "sleep"
    /\ now >= workers[t].wake
    /\ lim' = [lim EXCEPT !.lock = NoThread]
    /\ workers' = [workers EXCEPT ![t].pc = "semaphore"]
    /\ UNCHANGED now

\* acquire line 30 and get_price_with_rate_limit line 193: a permit is
\* taken and the lookup starts
StartLookup(t) ==
    /\ workers[t].pc = "semaphore"
    /\ lim.semaphore > 0
    /\ lim' = [lim EXCEPT !.semaphore = @ - 1]
    /\ workers' = [workers EXCEPT ![t].pc = "get_price", ![t].started = now]
    /\ UNCHANGED now

\* get_price_with_rate_limit lines 193-196: the lookup ends, whatever its
\* outcome, and release is called in the finally block
EndLookup(t) ==
    /\ workers[t].pc = "get_price"
    /\ workers' = [workers EXCEPT ![t].pc = "release"]
    /\ UNCHANGED <<now, lim>>

\* release lines 33-35
Release(t) ==
    /\ workers[t].pc = "release"
    /\ lim.lock = NoThread
    /\ lim' = [lim EXCEPT !.last_release_time = now, !.semaphore = @ + 1]
    /\ workers' = [workers EXCEPT ![t].pc = "returned"]
    /\ UNCHANGED now

NextLimiter ==
    \/ Tick /\ UNCHANGED notLimiter
    \/ (\E t \in Workers : AcquireLock(t)) /\ UNCHANGED notLimiter
    \/ (\E t \in Workers : WakeUp(t)) /\ UNCHANGED notLimiter
    \/ (\E t \in Workers : StartLookup(t)) /\ UNCHANGED notLimiter
    \/ (\E t \in Workers : EndLookup(t)) /\ UNCHANGED notLimiter
    \/ (\E t \in Workers : Release(t)) /\ UNCHANGED notLimiter

SpecLimiter == InitLimiter /\ [][NextLimiter]_vars

----------------------------------------------------------------------------
(* _extract_price.  A text is a sequence of one-character strings; a       *)
(* price is num / 10^scale with the trailing zeros of the fraction         *)
(* dropped, so that equal numbers are equal records.                       *)

Digits == {"0", "1", "2", "3", "4", "5", "6", "7", "8", "9"}

DigitVal ==
    "0" :> 0 @@ "1" :> 1 @@ "2" :> 2 @@ "3" :> 3 @@ "4" :> 4 @@
    "5" :> 5 @@ "6" :> 6 @@ "7" :> 7 @@ "8" :> 8 @@ "9" :> 9

\* return None
NotFound == [found |-> FALSE, num |-> 0, scale |-> 0]

RECURSIVE Pow10(_)
Pow10(n) == IF n = 0 THEN 1 ELSE 10 * Pow10(n - 1)

RECURSIVE Canonical(_, _)
Canonical(num, scale) ==
    IF scale > 0 /\ num % 10 = 0
    THEN Canonical(num \div 10, scale - 1)
    ELSE [found |-> TRUE, num |-> num, scale |-> scale]

\* str.replace(old, new): every occurrence, left to right
RECURSIVE replace(_, _, _)
replace(str, old, new) ==
    IF Len(str) < Len(old) THEN str
    ELSE IF SubSeq(str, 1, Len(old)) = old
         THEN new \o replace(SubSeq(str, Len(old) + 1, Len(str)), old, new)
         ELSE <<Head(str)>> \o replace(Tail(str), old, new)

\* str.strip()
RECURSIVE strip(_)
strip(str) ==
    IF str = <<>> THEN str
    ELSE IF Head(str) = " " THEN strip(Tail(str))
    ELSE IF str[Len(str)] = " " THEN strip(SubSeq(str, 1, Len(str) - 1))
    ELSE str

Has(str, c) == \E k \in 1..Len(str) : str[k] = c

\* lines 83-86 with the first branch dropped
separators_comma_only(str) == replace(str, <<",">>, <<".">>)

\* lines 83-86: thousands separators and decimal points
separators(str) ==
    IF Has(str, ",") /\ Has(str, ".")
    THEN replace(str, <<",">>, <<>>)
    ELSE replace(str, <<",">>, <<".">>)

\* lines 74-86: the text as it is handed to re.sub
clean(str) ==
    LET a == strip(replace(replace(str, <<"E", "X", "C", "L", " ", "V", "A", "T">>, <<>>),
                           <<"E", "X", "C", "L", ".", " ", "V", "A", "T">>, <<>>))
        b == replace(replace(a, <<"(">>, <<>>), <<")">>, <<>>)
        c == strip(replace(b, <<"R">>, <<>>))
        d == replace(c, <<" ">>, <<>>)
    IN  separators(d)

IsDigitOrDot(c) == c \in Digits \/ c = "."

\* line 88: re.sub(r'[^\d.]', '', price_text)
re_sub(str) == SelectSeq(str, IsDigitOrDot)

IsDigit(c) == c \in Digits

IsDot(c) == c = "."

\* float(price_text) does not raise ValueError; price_text holds digits and
\* dots only
float_ok(str) ==
    /\ Len(SelectSeq(str, IsDot)) <= 1
    /\ SelectSeq(str, IsDigit) # <<>>

RECURSIVE DigitsValue(_)
DigitsValue(ds) ==
    IF ds = <<>> THEN 0
    ELSE 10 * DigitsValue(SubSeq(ds, 1, Len(ds) - 1)) + DigitVal[ds[Len(ds)]]

\* number of characters after the dot
Scale(str) ==
    IF Has(str, ".")
    THEN Len(str) - (CHOOSE k \in 1..Len(str) : str[k] = ".")
    ELSE 0

\* float(price_text)
float(str) ==
    [num |-> DigitsValue(SelectSeq(str, IsDigit)), scale |-> Scale(str)]

\* line 94 without the limits
in_range_any(price) == TRUE

\* line 94: 0 < price < 1000000
in_range(price) ==
    /\ 0 < price.num
    /\ price.num \div Pow10(price.scale) < price_limit

\* lines 90-103
convert(str) ==
    IF str = <<>> THEN NotFound
    ELSE IF ~float_ok(str) THEN NotFound
    ELSE IF in_range(float(str))
         THEN Canonical(float(str).num, float(str).scale)
         ELSE NotFound

Alphabet == {"0", "1", ".", ",", " ", "R", "x"}

ShortTexts == UNION {[1..n -> Alphabet] : n \in 0..MaxLen}

Text6077 == <<"R", " ", "6", ",", "0", "7", "7", ".", "0", "0", " ", "(", "E", "X", "C", "L", " ", "V", "A", "T", ")">>
Text1234 == <<"R", "1", ",", "2", "3", "4", ".", "5", "6">>
TextNotAPrice == <<"n", "o", "t", " ", "a", " ", "p", "r", "i", "c", "e">>
TextZero == <<"R", " ", "0", ".", "0", "0">>

LongTexts ==
    {Text6077, Text1234, TextNotAPrice, TextZero,
     <<"1", "0", "0", "0", "0", "0", "0">>,
     <<"9", "9", "9", "9", "9", "9", ".", "9", "9">>,
     <<"R", " ", "1", " ", "0", "0", "0", " ", "0", "0", "0", ",", "0", "0">>,
     <<"R", " ", "5", ",", "0", "0", " ", "E", "X", "C", "L", ".", " ", "V", "A", "T">>,
     <<"L", "I", "S", "T", " ", "P", "R", "I", "C", "E", ":", " ", "R", " ", "8", "9", ".", "9", "0">>,
     <<"R", " ", "1", "2", " ", "x", " ", "6">>}

Texts == ShortTexts \cup LongTexts

InitExtract ==
    /\ Quiet
    /\ batch_size = 1
    /\ NoOverlap
    /\ NoLimiter
    /\ NoKey
    /\ NoOther
    /\ price_text = <<>>
    /\ \E t \in Texts :
          ex = [pc |-> "call", text |-> t, cleaned |-> <<>>, out |-> NotFound]

notExtract == <<pc, sheet, markup_percentage, read_outcome, values, sku_data,
                batch_num, threads, crawl_results, all_updates, i, attempt,
                results, writes, ret, phases, batch_size, crawlVars,
                cancelVars, diffVars, overlapVars, limiterVars, keyVars,
             otherVars>>

\* lines 67-86: return None for an empty text, else clean it
Clean ==
    /\ ex.pc = "call"
    /\ IF ex.text = <<>>
       THEN /\ ex' = [ex EXCEPT !.pc = "returned", !.out = NotFound]
            /\ UNCHANGED price_text
       ELSE /\ price_text' = clean(ex.text)
            /\ ex' = [ex EXCEPT !.pc = "cleaned", !.cleaned = clean(ex.text)]

\* line 88
Filter ==
    /\ ex.pc = "cleaned"
    /\ price_text' = re_sub(price_text)
    /\ ex' = [ex EXCEPT !.pc = "filtered"]

\* lines 90-103: float(), the limits, the ValueError handler
Convert ==
    /\ ex.pc = "filtered"
    /\ ex' = [ex EXCEPT !.pc = "returned", !.out = convert(price_text)]
    /\ UNCHANGED price_text

NextExtract ==
    \/ Clean /\ UNCHANGED notExtract
    \/ Filter /\ UNCHANGED notExtract
    \/ Convert /\ UNCHANGED notExtract

SpecExtract == InitExtract /\ [][NextExtract]_vars

----------------------------------------------------------------------------
(* One SKU on its way: read from column A, sent to the search page, stored *)
(* in the crawl result, matched against sku_data.  A SKU is a sequence of  *)
(* one-character strings.                                                  *)

SkuAlphabet == {"a", "A", "1", "/", " ", "-"}

SkuTexts == UNION {[1..n -> SkuAlphabet] : n \in 1..MaxSku}

\* requests.utils.quote(sku): letters, digits, "-" and "/" stay, a space is
\* percent-encoded
RECURSIVE quote(_)
quote(str) ==
    IF str = <<>> THEN <<>>
    ELSE (IF Head(str) = " " THEN <<"%", "2", "0">> ELSE <<Head(str)>>)
             \o quote(Tail(str))

NoKeys == [pc |-> "sheet", row_key |-> <<>>, search |-> <<>>,
           result_key |-> <<>>, matched |-> FALSE]

InitKey ==
    /\ Quiet
    /\ batch_size = 1
    /\ NoOverlap
    /\ NoLimiter
    /\ NoExtract
    /\ NoOther
    /\ key_in \in SkuTexts
    /\ key_used = NoKeys

notKey == <<pc, sheet, markup_percentage, read_outcome, values, sku_data,
            batch_num, threads, crawl_results, all_updates, i, attempt,
            results, writes, ret, phases, batch_size, crawlVars,
            cancelVars, diffVars, overlapVars, limiterVars, extractVars,
            otherVars>>

\* get_skus_and_data lines 81-87: sku = row[0]; sku_data[sku] = ...
ReadKey ==
    /\ key_used.pc = "sheet"
    /\ key_used' = [key_used EXCEPT !.pc = "read", !.row_key = key_in]
    /\ UNCHANGED key_in

\* get_price lines 113-114: the search URL holds quote(sku)
SearchKey ==
    /\ key_used.pc = "read"
    /\ key_used' = [key_used EXCEPT !.pc = "searched",
                                    !.search = quote(key_used.row_key)]
    /\ UNCHANGED key_in

\* process_sku lines 204-209: self.results[sku] = ...
StoreKey ==
    /\ key_used.pc = "searched"
    /\ key_used' = [key_used EXCEPT !.pc = "stored",
                                    !.result_key = key_used.row_key]
    /\ UNCHANGED key_in

\* process_updates lines 145-146: sku_data.get(sku, {})
MatchKey ==
    /\ key_used.pc = "stored"
    /\ key_used' = [key_used EXCEPT
                      !.pc = "matched",
                      !.matched = (key_used.result_key = key_used.row_key)]
    /\ UNCHANGED key_in

NextKey ==
    \/ ReadKey /\ UNCHANGED notKey
    \/ SearchKey /\ UNCHANGED notKey
    \/ StoreKey /\ UNCHANGED notKey
    \/ MatchKey /\ UNCHANGED notKey

SpecKey == InitKey /\ [][NextKey]_vars

----------------------------------------------------------------------------
(* update_batch on its own: one call with a batch of n rows for start_row, *)
(* every attempt and the sleep after it recorded                           *)

RECURSIVE Pow2(_)
Pow2(n) == IF n = 0 THEN 1 ELSE 2 * Pow2(n - 1)

\* lines 123 and 132: retry_delay * (2 ** attempt)
backoff(att) == retry_delay * Pow2(att)

\* lines 121-132: the seconds slept after an attempt that raised
sleep_after(outcome, att) ==
    IF outcome = "rate_limit" THEN backoff(att)
    ELSE IF outcome = "error" /\ att # max_retries - 1 THEN backoff(att)
    ELSE 0

\* line 106: the rows named by range_name
range_name(start_row, n) == [first |-> start_row, last |-> start_row + n - 1]

WriteOutcomes == {"ok", "rate_limit", "error"}

InitBatch ==
    /\ Quiet
    /\ batch_size = 1
    /\ NoOverlap
    /\ NoLimiter
    /\ NoExtract
    /\ NoKey
    /\ NoSync
    /\ NoLink
    /\ NoShared
    /\ NoPool
    /\ \E n \in 1..MaxBatch, at \in 0..MaxRows :
          ub = [pc |-> "try", n |-> n, start_row |-> first_row + at,
                attempt |-> 0, log |-> <<>>, written |-> <<>>, ret |-> FALSE]

notBatch == <<pc, sheet, markup_percentage, read_outcome, values, sku_data,
              batch_num, threads, crawl_results, all_updates, i, attempt,
              results, writes, ret, phases, batch_size, crawlVars,
              cancelVars, diffVars, overlapVars, limiterVars, extractVars,
              keyVars, sync, link, shared, pool>>

\* one pass of the loop, lines 102-132: the update call, and on an
\* exception the sleep, then the next pass or the return
UpdateAttempt ==
    /\ ub.pc = "try"
    /\ \E outcome \in WriteOutcomes :
        LET step == update_batch_step(outcome, ub.attempt)
        IN  ub' = [ub EXCEPT
                     !.log = Append(@, [outcome |-> outcome,
                                        slept |-> sleep_after(outcome,
                                                              ub.attempt)]),
                     !.written = IF outcome = "ok"
                                 THEN Append(@, range_name(ub.start_row, ub.n))
                                 ELSE @,
                     !.attempt = IF step = "retry" THEN @ + 1 ELSE @,
                     !.pc = IF step = "retry" THEN "try" ELSE "returned",
                     !.ret = (step = "true")]

NextBatch == UpdateAttempt /\ UNCHANGED notBatch

SpecBatch == InitBatch /\ [][NextBatch]_vars

----------------------------------------------------------------------------
(* One ACDCCrawler used by two calls of batch_crawl at a time (two threads *)
(* calling check_all_prices of one PriceMonitor).  self.results and        *)
(* self.result_lock belong to the crawler; each call has its own workers,  *)
(* all in one batch.                                                       *)

Crawls == {1, 2}

CrawlLists == {<<"A">>, <<"B">>, <<"A", "B">>}

\* result_lock is not held
Unlocked == <<>>

NewCrawl(list) ==
    [pc |-> "call", skus |-> list,
     workers |-> [t \in 1..Len(list) |-> "start"],
     stored |-> {}, returned |-> <<>>]

InitShared ==
    /\ Quiet
    /\ batch_size = 1
    /\ NoOverlap
    /\ NoLimiter
    /\ NoExtract
    /\ NoKey
    /\ NoBatch
    /\ NoSync
    /\ NoLink
    /\ NoPool
    /\ \E lists \in [Crawls -> CrawlLists] :
          shared = [results |-> <<>>, result_lock |-> Unlocked, raced |-> FALSE,
                    crawls |-> [c \in Crawls |-> NewCrawl(lists[c])]]

notShared == <<pc, sheet, markup_percentage, read_outcome, values, sku_data,
               batch_num, threads, crawl_results, all_updates, i, attempt,
               results, writes, ret, phases, batch_size, crawlVars,
               cancelVars, diffVars, overlapVars, limiterVars, extractVars,
               keyVars, ub, sync, link, pool>>

\* batch_crawl lines 221-244: self.results = {} with no lock taken, then
\* the threads of the batch are started
ResetShared(c) ==
    /\ shared.crawls[c].pc = "call"
    /\ shared' = [shared EXCEPT
                    !.results = reset_results(@),
                    !.raced = @ \/ shared.result_lock # Unlocked,
                    !.crawls[c].pc = "run"]

\* process_sku lines 201-204 and 211-212: the lookup; without a price the
\* worker is done
LookupShared(c, t) ==
    /\ shared.crawls[c].pc = "run"
    /\ shared.crawls[c].workers[t] = "start"
    /\ \E kind \in LookupKinds :
          shared' = [shared EXCEPT
                       !.crawls[c].workers[t] =
                           IF get_price(kind, 100000) # None
                           THEN "priced" ELSE "done"]

\* process_sku line 205: with self.result_lock
LockShared(c, t) ==
    /\ shared.crawls[c].workers[t] = "priced"
    /\ shared.result_lock = Unlocked
    /\ shared' = [shared EXCEPT !.result_lock = <<c, t>>,
                                !.crawls[c].workers[t] = "locked"]

\* process_sku lines 206-210: self.results[sku] = ..., the lock released
StoreShared(c, t) ==
    /\ shared.crawls[c].workers[t] = "locked"
    /\ shared' = [shared EXCEPT
                    !.results = store_result(@, shared.crawls[c].skus[t],
                                             100000),
                    !.result_lock = Unlocked,
                    !.crawls[c].stored = @ \cup {shared.crawls[c].skus[t]},
                    !.crawls[c].workers[t] = "done"]

\* batch_crawl lines 246-250: all threads joined, return self.results
ReturnShared(c) ==
    /\ shared.crawls[c].pc = "run"
    /\ \A t \in 1..Len(shared.crawls[c].skus) :
          shared.crawls[c].workers[t] = "done"
    /\ shared' = [shared EXCEPT !.crawls[c].pc = "returned",
                                !.crawls[c].returned = shared.results]

NextShared ==
    \/ (\E c \in Crawls : ResetShared(c)) /\ UNCHANGED notShared
    \/ (\E c \in Crawls, t \in 1..MaxRows :
           t <= Len(shared.crawls[c].skus) /\ LookupShared(c, t))
       /\ UNCHANGED notShared
    \/ (\E c \in Crawls, t \in 1..MaxRows :
           t <= Len(shared.crawls[c].skus) /\ LockShared(c, t))
       /\ UNCHANGED notShared
    \/ (\E c \in Crawls, t \in 1..MaxRows :
           t <= Len(shared.crawls[c].skus) /\ StoreShared(c, t))
       /\ UNCHANGED notShared
    \/ (\E c \in Crawls : ReturnShared(c)) /\ UNCHANGED notShared

SpecShared == InitShared /\ [][NextShared]_vars

----------------------------------------------------------------------------
(* get_price: the search results page and the link followed from it.  The  *)
(* page is its <a> elements in document order; an href and an anchor text  *)
(* are sequences of one-character strings.                                 *)

\* str.lower()
lower(str) == [k \in 1..Len(str) |-> IF str[k] = "A" THEN "a" ELSE str[k]]

\* a in b, for strings
Contains(b, a) ==
    \E k \in 0..(Len(b) - Len(a)) : SubSeq(b, k + 1, k + Len(a)) = a

\* an <a> element without the attribute href
NoHref == <<"none">>

Hrefs == {NoHref, <<>>, <<"a">>, <<"A">>, <<"x">>, <<"x", "A">>}

AnchorTexts == {<<>>, <<"a">>, <<"x">>}

Links == [cls : {"price_tag_c7", "other"}, href : Hrefs, text : AnchorTexts]

Pages == UNION {[1..n -> Links] : n \in 0..MaxLinks}

\* line 129: soup.find('a', class_='price_tag_c7', href=True)
ByClass(page) ==
    {k \in 1..Len(page) :
        page[k].cls = "price_tag_c7" /\ page[k].href # NoHref}

\* line 131: soup.find('a', href=lambda x: x and sku.lower() in x.lower())
ByHref(page, sku) ==
    {k \in 1..Len(page) :
        /\ page[k].href # NoHref
        /\ page[k].href # <<>>
        /\ Contains(lower(page[k].href), lower(sku))}

First(set) == CHOOSE k \in set : \A j \in set : k <= j

\* no element found
NoLinkFound == 0

\* lines 129-131: product_elem, as its position on the page
product_elem(page, sku) ==
    IF ByClass(page) # {} THEN First(ByClass(page))
    ELSE IF ByHref(page, sku) # {} THEN First(ByHref(page, sku))
    ELSE NoLinkFound

InitLink ==
    /\ Quiet
    /\ batch_size = 1
    /\ NoOverlap
    /\ NoLimiter
    /\ NoExtract
    /\ NoKey
    /\ NoBatch
    /\ NoSync
    /\ NoShared
    /\ NoPool
    /\ \E sku \in {<<"a">>, <<"A">>}, page \in Pages :
          link = [pc |-> "call", sku |-> sku, page |-> page,
                  followed |-> NoLinkFound, price |-> None, from |-> "none"]

notLink == <<pc, sheet, markup_percentage, read_outcome, values, sku_data,
             batch_num, threads, crawl_results, all_updates, i, attempt,
             results, writes, ret, phases, batch_size, crawlVars,
             cancelVars, diffVars, overlapVars, limiterVars, extractVars,
             keyVars, ub, sync, shared, pool>>

\* lines 112-127 and 178-187: the search request; a price on the search
\* page itself is returned
SearchPage ==
    /\ link.pc = "call"
    /\ \E kind \in LookupKinds :
          link' = [link EXCEPT
                     !.pc = IF kind = "not_found" THEN "links" ELSE "returned",
                     !.price = get_price(kind, 100000),
                     !.from = IF kind = "price" THEN "search" ELSE "none"]

\* lines 129-139: the link is chosen; without one None is returned
FollowLink ==
    /\ link.pc = "links"
    /\ link' = [link EXCEPT
                  !.followed = product_elem(link.page, link.sku),
                  !.pc = IF product_elem(link.page, link.sku) = NoLinkFound
                         THEN "returned" ELSE "product"]

\* lines 139-176: the product page is fetched and searched for a price
ProductPage ==
    /\ link.pc = "product"
    /\ \E kind \in LookupKinds :
          link' = [link EXCEPT
                     !.pc = "returned",
                     !.price = get_price(kind, 100000),
                     !.from = IF kind = "price" THEN "product" ELSE "none"]

NextLink ==
    \/ SearchPage /\ UNCHANGED notLink
    \/ FollowLink /\ UNCHANGED notLink
    \/ ProductPage /\ UNCHANGED notLink

SpecLink == InitLink /\ [][NextLink]_vars

----------------------------------------------------------------------------
(* A crawl with its workers seen step by step: each worker goes through    *)
(* the request limiter, the lookup and the result lock.  How long a sleep  *)
(* lasts does not matter here, only that it ends; whether acquire sleeps   *)
(* is left open.                                                           *)

\* get_price_with_rate_limit lines 191-196 with release skipped when the
\* lookup ran into an exception
after_lookup_no_finally(kind) ==
    IF kind = "exception" THEN "store" ELSE "release"

\* get_price_with_rate_limit lines 191-196: release runs in the finally
\* block, whatever the lookup did
after_lookup(kind) == "release"

NewWorker == [pc |-> "call", price |-> None, acquired |-> 0, released |-> 0]

InitPool ==
    /\ CrawlCall
    /\ NoCancel
    /\ dIn = NoDiff
    /\ dOut = BlankRow
    /\ NoOverlap
    /\ NoLimiter
    /\ NoExtract
    /\ NoKey
    /\ NoBatch
    /\ NoSync
    /\ NoLink
    /\ NoShared
    /\ pool = [lim |-> NewLimiter, result_lock |-> NoThread,
               workers |-> [t \in 1..Len(sku_list) |-> NewWorker]]

notPool == <<cancelVars, diffVars, overlapVars, limiterVars, extractVars,
             keyVars, ub, sync, link, shared>>

\* RateLimiter.acquire lines 25-29: the lock is taken and the sleep, if
\* any, starts
PoolAcquireLock(t) ==
    /\ pc = "crawl_run"
    /\ t \in threads
    /\ pool.workers[t].pc = "call"
    /\ pool.lim.lock = NoThread
    /\ pool' = [pool EXCEPT !.lim.lock = t, !.workers[t].pc = "sleep"]

\* acquire line 29 and the end of the with block
PoolWakeUp(t) ==
    /\ pool.workers[t].pc = "sleep"
    /\ pool' = [pool EXCEPT !.lim.lock = NoThread,
                            !.workers[t].pc = "semaphore"]

\* acquire line 30: semaphore.acquire()
PoolSemaphore(t) ==
    /\ pool.workers[t].pc = "semaphore"
    /\ pool.lim.semaphore > 0
    /\ pool' = [pool EXCEPT !.lim.semaphore = @ - 1,
                            !.workers[t].acquired = @ + 1,
                            !.workers[t].pc = "get_price"]

\* get_price_with_rate_limit line 193: the HTTP calls return or raise
PoolGetPrice(t) ==
    /\ pool.workers[t].pc = "get_price"
    /\ \E kind \in LookupKinds, p \in CrawlPrices :
          pool' = [pool EXCEPT !.workers[t].price = get_price(kind, p),
                               !.workers[t].pc = after_lookup(kind)]

\* RateLimiter.release lines 33-35
PoolRelease(t) ==
    /\ pool.workers[t].pc = "release"
    /\ pool.lim.lock = NoThread
    /\ pool' = [pool EXCEPT !.lim.semaphore = @ + 1,
                            !.workers[t].released = @ + 1,
                            !.workers[t].pc = "store"]

\* process_sku lines 204-217: the price, if any, is stored under
\* result_lock and the thread ends
PoolStore(t) ==
    /\ pc = "crawl_run"
    /\ t \in threads
    /\ pool.workers[t].pc = "store"
    /\ pool.result_lock = NoThread
    /\ crawl_results' = store_result(crawl_results, sku_list[t],
                                     pool.workers[t].price)
    /\ lookups' = [lookups EXCEPT ![t] =
                       [n |-> @.n + 1, ok |-> pool.workers[t].price # None]]
    /\ threads' = threads \ {t}
    /\ pool' = [pool EXCEPT !.workers[t].pc = "ended"]
    /\ UNCHANGED <<sku_list, crawl_bs>>
    /\ UNCHANGED <<pc, sheet, batch_size, markup_percentage, read_outcome,
                   values, sku_data, batch_num, all_updates, i, attempt,
                   results, writes, ret, phases>>

poolOnly == <<runVars, crawlVars>>

NextPool ==
    \/ BatchCrawl /\ UNCHANGED <<notPool, pool>>
    \/ StartBatch /\ UNCHANGED <<notPool, pool>>
    \/ (\E t \in 1..MaxRows : PoolAcquireLock(t))
       /\ UNCHANGED <<notPool, poolOnly>>
    \/ (\E t \in 1..MaxRows : t <= Len(sku_list) /\ PoolWakeUp(t))
       /\ UNCHANGED <<notPool, poolOnly>>
    \/ (\E t \in 1..MaxRows : t <= Len(sku_list) /\ PoolSemaphore(t))
       /\ UNCHANGED <<notPool, poolOnly>>
    \/ (\E t \in 1..MaxRows : t <= Len(sku_list) /\ PoolGetPrice(t))
       /\ UNCHANGED <<notPool, poolOnly>>
    \/ (\E t \in 1..MaxRows : t <= Len(sku_list) /\ PoolRelease(t))
       /\ UNCHANGED <<notPool, poolOnly>>
    \/ (\E t \in 1..MaxRows : PoolStore(t)) /\ UNCHANGED notPool
    \/ JoinBatch /\ UNCHANGED <<notPool, pool>>
    \/ BatchCrawlReturn /\ UNCHANGED <<notPool, pool>>

\* the scheduler runs a thread that can run; a sleep and an HTTP call end
SpecPool == InitPool /\ [][NextPool]_vars /\ WF_vars(NextPool)

(***************************************************************************)
(* The Shopify upload of main.py: the thread started by /sync and the      *)
(* /cancel handler, which share cancel_event                               *)
(***************************************************************************)

SaveOutcomes == {"saved", "not_saved", "raised"}

\* Thread.is_alive() of current_sync_thread
is_alive(th) == th \notin {"none", "ended"}

\* upload_to_shopify lines 148-149: time.sleep(1) after every second product
pause_after(index) == index % 2 = 0

InitSync ==
    /\ Quiet
    /\ batch_size = 1
    /\ NoOverlap
    /\ NoLimiter
    /\ NoExtract
    /\ NoKey
    /\ NoBatch
    /\ NoLink
    /\ NoShared
    /\ NoPool
    /\ \E n \in 0..MaxRows :
          sync = [cancel_event |-> FALSE, thread |-> "none", handler |-> "idle",
                  total |-> n, index |-> 0, uploaded |-> 0, failed |-> 0,
                  emitted |-> "none", target |-> FALSE,
                  timed_out |-> FALSE, late_created |-> FALSE,
                  late_emitted |-> FALSE]

notSync == <<pc, sheet, markup_percentage, read_outcome, values, sku_data,
             batch_num, threads, crawl_results, all_updates, i, attempt,
             results, writes, ret, phases, batch_size, crawlVars,
             cancelVars, diffVars, overlapVars, limiterVars, extractVars,
             keyVars, ub, link, shared, pool>>

\* sync_products lines 243-264: cancel_event.clear(), then the thread running
\* sync_task is started on the products of the CSV file
SyncProducts ==
    /\ sync.thread = "none"
    /\ sync' = [sync EXCEPT !.cancel_event = FALSE, !.thread = "init_session"]
    /\ UNCHANGED notSync

\* upload_to_shopify lines 106-108: without a Shopify session the upload
\* returns at once, with nothing uploaded
InitSession ==
    /\ sync.thread = "init_session"
    /\ \E ok \in BOOLEAN :
          sync' = [sync EXCEPT !.thread = IF ok THEN "loop" ELSE "emit_check"]
    /\ UNCHANGED notSync

\* upload_to_shopify lines 111-113: the next product, unless the list is
\* exhausted or cancel_event is set
NextProduct ==
    /\ sync.thread = "loop"
    /\ sync' = IF sync.index = sync.total \/ sync.cancel_event
               THEN [sync EXCEPT !.thread = "clear_session"]
               ELSE [sync EXCEPT !.index = @ + 1, !.thread = "save"]
    /\ UNCHANGED notSync

\* history: cancel_sync has returned success for a cancellation requested
\* while the thread started by /sync was running
cancel_returned == sync.handler = "returned" /\ sync.target

\* upload_to_shopify lines 115-146: the product is built and saved; a save
\* that succeeds has created the product in the shop
SaveProduct ==
    /\ sync.thread = "save"
    /\ \E outcome \in SaveOutcomes :
          sync' = [sync EXCEPT
                     !.uploaded = IF outcome = "saved" THEN @ + 1 ELSE @,
                     !.failed = IF outcome = "saved" THEN @ ELSE @ + 1,
                     !.late_created = @ \/ (outcome = "saved"
                                            /\ cancel_returned),
                     !.thread = IF pause_after(sync.index) THEN "sleep"
                                ELSE "loop"]
    /\ UNCHANGED notSync

\* upload_to_shopify line 149: time.sleep(1) returns
PauseOver ==
    /\ sync.thread = "sleep"
    /\ sync' = [sync EXCEPT !.thread = "loop"]
    /\ UNCHANGED notSync

\* upload_to_shopify lines 150-151: the session is cleared and the counts
\* are returned to sync_task
ClearSession ==
    /\ sync.thread = "clear_session"
    /\ sync' = [sync EXCEPT !.thread = "emit_check"]
    /\ UNCHANGED notSync

\* sync_task lines 94-95: sync_complete is emitted unless cancel_event is
\* set, and the thread ends
EmitComplete ==
    /\ sync.thread = "emit_check"
    /\ sync' = [sync EXCEPT
                  !.emitted = IF sync.cancel_event THEN @ ELSE "sync_complete",
                  !.late_emitted = @ \/ (~sync.cancel_event
                                         /\ cancel_returned),
                  !.thread = "ended"]
    /\ UNCHANGED notSync

\* cancel_sync lines 210-211: cancel_event.set(); the thread is joined only
\* if there is one and it is alive
CancelSet ==
    /\ sync.handler = "idle"
    /\ sync' = [sync EXCEPT !.cancel_event = TRUE,
                            !.target = is_alive(sync.thread),
                            !.handler = IF is_alive(sync.thread) THEN "join"
                                        ELSE "clear"]
    /\ UNCHANGED notSync

\* cancel_sync line 212: join(timeout=5) returns because the thread has ended
JoinEnded ==
    /\ sync.handler = "join"
    /\ ~is_alive(sync.thread)
    /\ sync' = [sync EXCEPT !.handler = "clear"]
    /\ UNCHANGED notSync

\* cancel_sync line 212: join(timeout=5) returns because five seconds have
\* passed with the thread still alive (a save is an HTTP request whose
\* duration has no bound in the code)
JoinTimeout ==
    /\ sync.handler = "join"
    /\ is_alive(sync.thread)
    /\ sync' = [sync EXCEPT !.handler = "clear", !.timed_out = TRUE]
    /\ UNCHANGED notSync

\* cancel_sync lines 213-214: cancel_event.clear() and the success reply
CancelReturn ==
    /\ sync.handler = "clear"
    /\ sync' = [sync EXCEPT !.cancel_event = FALSE, !.handler = "returned"]
    /\ UNCHANGED notSync

NextSync ==
    \/ SyncProducts
    \/ InitSession
    \/ NextProduct
    \/ SaveProduct
    \/ PauseOver
    \/ ClearSession
    \/ EmitComplete
    \/ CancelSet
    \/ JoinEnded
    \/ JoinTimeout
    \/ CancelReturn

SpecSync == InitSync /\ [][NextSync]_vars

----------------------------------------------------------------------------
(* Helpers of the properties *)

Abs(x) == IF x < 0 THEN 0 - x ELSE x

\* dict.get(key, 0) on a returned summary
Count(d, key) == IF key \in DOMAIN d THEN d[key] ELSE 0

\* the batches update_batch gave up on, in order
FailedWrites == SelectSeq(writes, LAMBDA w : w.state = "false")

RECURSIVE RowsIn(_)
RowsIn(ws) == IF ws = <<>> THEN 0 ELSE Len(Head(ws).skus) + RowsIn(Tail(ws))

\* sheet rows (1-based positions in values) a write covers
Covers(w, k) == w.start_row <= k + 1 /\ k + 1 < w.start_row + Len(w.skus)

\* round-half-up to 2 decimal places of num/den mills, in mills
HalfUp2(num, den) == 10 * ((2 * num + 10 * den) \div (20 * den))

ProcessUpdatesRan == "write" \in Range(phases)

----------------------------------------------------------------------------
(* Properties *)

\* C1: every row handed to a batch write goes to the sheet row its SKU was
\* read from.
C1_RowKeptForSku ==
    \A w \in 1..Len(writes) : \A j \in 1..Len(writes[w].skus) :
        LET k == writes[w].start_row + j - 2
        IN  /\ k \in 1..Len(values)
            /\ values[k].cells >= 1
            /\ values[k].sku = writes[w].skus[j]

\* C2: a SKU that was read but is absent from the crawl result keeps its
\* row: no batch write of the run covers it and the row is as it was read.
C2_AbsentSkuRowUntouched ==
    pc \in {"write", "done"} =>
        \A k \in 1..Len(values) :
            (values[k].cells >= 1 /\ values[k].sku \notin Keys(crawl_results)) =>
                /\ \A w \in 1..Len(writes) : ~Covers(writes[w], k)
                /\ sheet[k] = values[k]

\* C3: each batch that update_batch gave up on adds its row count to failed
\* and exactly one error entry naming its SKUs, and the batches after it are
\* still handed to update_batch.
C3_FailedBatchBooked ==
    ProcessUpdatesRan =>
        /\ Count(results, "failed") = RowsIn(FailedWrites)
        /\ results["errors"] = [k \in 1..Len(FailedWrites) |->
               [msg |-> "Failed to update batch with SKUs",
                skus |-> FailedWrites[k].skus]]
        /\ \A w \in 1..Len(writes) :
               /\ writes[w].start_row = first_row + (w - 1) * batch_size
               /\ writes[w].skus =
                     KeyList(BatchAt(all_updates, (w - 1) * batch_size, batch_size))
        /\ pc = "done" => Len(writes) * batch_size >= Len(all_updates)

\* C3 witness: a run ended in which a batch failed and a later batch was
\* still written.
C3_Witness ==
    /\ pc = "done"
    /\ \E w \in 1..Len(writes) :
          /\ w < Len(writes)
          /\ writes[w].state = "false"
          /\ Len(writes[w].skus) > 1
          /\ writes[Len(writes)].state = "true"

\* C4: every returned summary has updated, failed and errors, the first two
\* integers and the last a list.
C4_SummaryHasAllFields ==
    pc = "done" =>
        /\ {"updated", "failed", "errors"} \subseteq DOMAIN ret
        /\ ret["updated"] \in Nat
        /\ ret["failed"] \in Nat
        /\ DOMAIN ret["errors"] = 1..Len(ret["errors"])

\* C5: the run never leaves check_all_prices by an exception; when it has
\* ended it has returned a summary with its list of errors.
C5_RunNeverRaises ==
    /\ pc \in {"idle", "crawl_start", "crawl_run", "write", "done"}
    /\ pc = "done" => "errors" \in DOMAIN ret

\* C5 witness: the crawler raised and the run returned a summary.
C5_Witness ==
    /\ pc = "done"
    /\ "errors" \in DOMAIN ret
    /\ ret["errors"] = <<ErrorMsg("can't start new thread")>>

\* C6: a run over a sheet with no entries returns updated 0, failed 0 and no
\* error, without a crawl or a write.
C6_EmptyLedgerIsSuccess ==
    (pc = "done" /\ read_outcome = "ok" /\ sku_data = <<>>) =>
        /\ Count(ret, "updated") = 0
        /\ Count(ret, "failed") = 0
        /\ ret["errors"] = <<>>
        /\ "crawl" \notin Range(phases)
        /\ writes = <<>>

\* C7: when the read of the sheet raised, the run has ended with an error
\* reported and nothing updated, no crawl was started and no write attempted.
C7_ReadFailureReported ==
    read_outcome = "raise" =>
        /\ pc = "done"
        /\ Count(ret, "updated") = 0
        /\ ret["errors"] # <<>>
        /\ phases = <<"read">>
        /\ threads = {}
        /\ crawl_results = <<>>
        /\ writes = <<>>

\* C7 witness: the read of a sheet that holds SKUs raised.
C7_Witness ==
    /\ read_outcome = "raise"
    /\ pc = "done"
    /\ \E k \in 1..Len(sheet) : sheet[k].cells >= 1

\* C8: the status written is UpToDate when the prices differ by at most
\* 0.01 and PriceChanged otherwise.
C8_StatusClassifiesDiff ==
    dOut.cells = 8 =>
        dOut.status = IF Abs(dIn.current - dIn.new) <= 10
                      THEN "UpToDate" ELSE "PriceChanged"

\* C9 as claimed: the difference written is recorded_price - new_price for
\* every recorded price >= 0.
C9_DiffIsExact ==
    dOut.cells = 8 => dOut.diff = dIn.current - dIn.new

\* C9 as amended: the difference written is 0 when the recorded price is 0,
\* and otherwise recorded_price - new_price rounded to 2 decimal places
\* (120.00 and 100.00 give 20.00).
C9_DiffRounded ==
    dOut.cells = 8 =>
        /\ dIn.current = 0 => dOut.diff = 0
        /\ dIn.current # 0 =>
              /\ dOut.diff % 10 = 0
              /\ Abs(dOut.diff - (dIn.current - dIn.new)) <= 5
        /\ (dIn.current = 120000 /\ dIn.new = 100000) => dOut.diff = 20000

\* C9 witness: a row computed from a recorded price of 100.00 and a new price
\* of 100.02, whose difference written is -0.02.
C9_Witness ==
    /\ dOut.cells = 8
    /\ dIn.current = 100000
    /\ dIn.new = 100020
    /\ dOut.diff = 0 - 20

\* C10: the sell price is new_price * (1 + markup/100) * 1.15 rounded half
\* up to 2 decimal places.
C10_SellPriceHalfUp ==
    dOut.cells = 8 =>
        dOut.variant = HalfUp2(dIn.new * (100 + dIn.markup) * 115, 10000)

\* C11: SKUs absent from the crawl result are not counted in failed: in
\* every returned summary failed is the number of rows of the batches whose
\* write failed.
C11_FailedCountsOnlyWriteFailures ==
    pc = "done" => Count(ret, "failed") = RowsIn(FailedWrites)

\* the lookups that ran and ended without a price
FailedLookups == {t \in 1..Len(lookups) : lookups[t].n >= 1 /\ ~lookups[t].ok}

Distinct(list) ==
    \A a, b \in 1..Len(list) : list[a] = list[b] => a = b

\* number of the batch (from 1) that index t of sku_list belongs to
BatchOf(t) == ((t - 1) \div crawl_bs) + 1

\* C12: a failed lookup stops neither its batch nor the crawl: process_sku
\* runs at most once per element of sku_list, once for every element of a
\* finished batch, and when the crawl has returned it has run exactly once
\* for every element and every element whose lookup gave a price has an
\* entry in the result.
C12_FailedLookupStopsNothing ==
    pc \in {"crawl_start", "crawl_run", "crawl_returned"} =>
        \A t \in 1..Len(sku_list) :
            /\ lookups[t].n <= 1
            /\ BatchOf(t) <= batch_num => lookups[t].n = 1
            /\ pc = "crawl_returned" => lookups[t].n = 1
            /\ lookups[t].ok => sku_list[t] \in Keys(crawl_results)

\* C12 witness: the crawl returned after a lookup of its first batch
\* failed, and a lookup of a later batch gave a price.
C12_Witness ==
    /\ pc = "crawl_returned"
    /\ \E a, b \in 1..Len(sku_list) :
          /\ BatchOf(a) = 1
          /\ ~lookups[a].ok
          /\ BatchOf(b) > 1
          /\ lookups[b].ok

\* C13 as claimed: for any list, the returned result has every SKU at most
\* once and only requested SKUs, and successes plus failures is the length
\* of the list.
C13_CountsAddUp ==
    pc = "crawl_returned" =>
        /\ Distinct(KeyList(crawl_results))
        /\ Keys(crawl_results) \subseteq Range(sku_list)
        /\ Len(crawl_results) + Cardinality(FailedLookups) = Len(sku_list)

\* C13 as amended: the first two hold for any list, the count for any list
\* of distinct SKUs.
C13_CountsAddUpDistinct ==
    pc = "crawl_returned" =>
        /\ Distinct(KeyList(crawl_results))
        /\ Keys(crawl_results) \subseteq Range(sku_list)
        /\ Distinct(sku_list) =>
              Len(crawl_results) + Cardinality(FailedLookups) = Len(sku_list)

\* C13 witness: a crawl of distinct SKUs returned with a success and a
\* failure, on a crawler that held an entry of an earlier crawl.
C13_Witness ==
    /\ pc = "crawl_returned"
    /\ Distinct(sku_list)
    /\ Len(crawl_results) >= 1
    /\ FailedLookups # {}
    /\ "C" \notin Range(sku_list)

\* C14: after a cancellation triggered when k batches had started, no
\* lookup of a later batch puts its SKU into the result.
C14_CancelStopsLaterBatches ==
    cancelled =>
        \A t \in 1..Len(sku_list) : BatchOf(t) > cancel_at => ~lookups[t].ok

\* C15: at most one run is crawling or writing against the sheet at any
\* time.
C15_OneRunAtATime ==
    \A a, b \in Runs :
        (runs[a].pc \in Busy /\ runs[b].pc \in Busy) => a = b

\* C16: any two lookups admitted by the limiter start at least interval
\* seconds apart.
C16_LookupsSpaced ==
    \A a, b \in Workers :
        (a # b /\ workers[a].started # NotStarted
               /\ workers[b].started # NotStarted)
            => Abs(workers[a].started - workers[b].started) >= interval

Price(num, scale) == [found |-> TRUE, num |-> num, scale |-> scale]

\* C17: the extractor returns 6077.00 for "R 6,077.00 (EXCL VAT)", 1234.56
\* for "R1,234.56", and nothing for "not a price" and for "R 0.00".
C17_Examples ==
    ex.pc = "returned" =>
        /\ ex.text = Text6077 => ex.out = Price(6077, 0)
        /\ ex.text = Text1234 => ex.out = Price(123456, 2)
        /\ ex.text = TextNotAPrice => ex.out = NotFound
        /\ ex.text = TextZero => ex.out = NotFound

\* C17 witness: the call on "R 6,077.00 (EXCL VAT)" has returned a price.
C17_Witness ==
    /\ ex.pc = "returned"
    /\ ex.text = Text6077
    /\ ex.out.found

\* C18: for every text the call ends by returning, and what it returns is
\* nothing or a price p with 0 < p < 1,000,000.
C18_NotFoundOrInRange ==
    /\ ex.pc \in {"call", "cleaned", "filtered", "returned"}
    /\ ex.pc = "returned" =>
          \/ ex.out = NotFound
          \/ /\ ex.out.found
             /\ 0 < ex.out.num
             /\ ex.out.num < price_limit * Pow10(ex.out.scale)

\* C18 witness: a text that parses to a number of 1,000,000 or more was
\* answered with nothing.
C18_Witness ==
    /\ ex.pc = "returned"
    /\ float_ok(price_text)
    /\ float(price_text).num \div Pow10(float(price_text).scale) >= price_limit
    /\ ex.out = NotFound

\* str[a..b] is digits, or digits "." digits
IsToken(str) ==
    /\ str # <<>>
    /\ \A k \in 1..Len(str) : IsDigitOrDot(str[k])
    /\ Len(SelectSeq(str, IsDot)) <= 1
    /\ IsDigit(str[1])
    /\ IsDigit(str[Len(str)])

Tokens(str) ==
    {t \in {SubSeq(str, a, b) : a \in 1..Len(str), b \in 1..Len(str)} :
        IsToken(t)}

LongestTokens(str) ==
    {t \in Tokens(str) : \A u \in Tokens(str) : Len(u) <= Len(t)}

\* C19: what the extractor returns is what the longest contiguous
\* digits[.digits] token of the cleaned text converts to (nothing when
\* there is no token).
C19_ParsesLongestToken ==
    ex.pc = "returned" /\ ex.text # <<>> =>
        IF LongestTokens(ex.cleaned) = {}
        THEN ex.out = NotFound
        ELSE \E t \in LongestTokens(ex.cleaned) : ex.out = convert(t)

\* the normal form of a SKU as the claim words it: uppercase, "/" and " "
\* replaced by the delimiter "-", no two delimiters in a row
Upper(c) == IF c = "a" THEN "A" ELSE c

Delimited(c) == IF c \in {"/", " "} THEN "-" ELSE Upper(c)

RECURSIVE Undoubled(_)
Undoubled(str) ==
    IF Len(str) <= 1 THEN str
    ELSE IF str[1] = "-" /\ str[2] = "-" THEN Undoubled(Tail(str))
    ELSE <<Head(str)>> \o Undoubled(Tail(str))

normalize(str) == Undoubled([k \in 1..Len(str) |-> Delimited(str[k])])

\* C20: normalization is idempotent, and the SKU sent to the search page
\* and the keys under which the crawl result and the ledger row are matched
\* are the normalized form of the SKU in the sheet.
C20_NormalizedSkuUsed ==
    /\ normalize(normalize(key_in)) = normalize(key_in)
    /\ key_used.pc = "matched" =>
          /\ key_used.search = quote(normalize(key_in))
          /\ key_used.result_key = normalize(key_in)
          /\ key_used.row_key = normalize(key_in)

\* C21: update_batch makes at most max_retries attempts for a batch, none
\* after an attempt that succeeded, and returns True exactly when one of
\* its attempts succeeded.
C21_BoundedAttempts ==
    /\ Len(ub.log) <= max_retries
    /\ \A k \in 1..Len(ub.log) :
          ub.log[k].outcome = "ok" => (k = Len(ub.log) /\ ub.pc = "returned")
    /\ ub.pc = "returned" =>
          (ub.ret <=> \E k \in 1..Len(ub.log) : ub.log[k].outcome = "ok")

\* C21 witness: the call returned True on its third attempt.
C21_Witness ==
    /\ ub.pc = "returned"
    /\ ub.ret
    /\ Len(ub.log) = max_retries

\* C22: an attempt that hit the rate limit is followed by a sleep of
\* retry_delay * 2^attempt, and an attempt that failed otherwise is followed
\* by neither that sleep nor another attempt.
C22_BackoffOnlyOnRateLimit ==
    \A k \in 1..Len(ub.log) :
        /\ ub.log[k].outcome = "rate_limit" =>
              ub.log[k].slept = backoff(k - 1)
        /\ ub.log[k].outcome = "error" =>
              (ub.log[k].slept = 0 /\ k = Len(ub.log) /\ ub.pc = "returned")

\* C23: the batch writes of a run start at row 2, each begins at the row
\* after the last row of the one before, each covers 1..batch_size rows and
\* all but the last exactly batch_size, and when the run is done they cover
\* as many rows as there are computed updates.
C23_WritesContiguous ==
    /\ writes # <<>> => writes[1].start_row = first_row
    /\ \A w \in 1..Len(writes) :
          /\ Len(writes[w].skus) >= 1
          /\ Len(writes[w].skus) <= batch_size
          /\ w < Len(writes) =>
                /\ Len(writes[w].skus) = batch_size
                /\ writes[w + 1].start_row
                       = writes[w].start_row + Len(writes[w].skus)
    /\ (pc = "done" /\ ProcessUpdatesRan) => RowsIn(writes) = Len(all_updates)

\* C23 witness: a run is done after two batch writes, the last one shorter
\* than batch_size.
C23_Witness ==
    /\ pc = "done"
    /\ Len(writes) >= 2
    /\ Len(writes[Len(writes)].skus) < batch_size

IsPrefix(a, b) == Len(a) <= Len(b) /\ a = SubSeq(b, 1, Len(a))

\* C24: the phases of a run come in the order read, crawl, diff, write,
\* each entered at most once; a lookup runs only after the sheet was read,
\* and a write is issued only after every lookup has run and every worker
\* was joined.
C24_PhasesInOrder ==
    /\ IsPrefix(phases, <<"read", "crawl", "diff", "write">>)
    /\ (threads # {} \/ \E t \in 1..Len(lookups) : lookups[t].n >= 1) =>
          (read_outcome = "ok" /\ Len(phases) >= 2)
    /\ writes # <<>> =>
          /\ phases = <<"read", "crawl", "diff", "write">>
          /\ threads = {}
          /\ \A t \in 1..Len(lookups) : lookups[t].n = 1

\* C24 witness: a run is done after a batch write.
C24_Witness ==
    /\ pc = "done"
    /\ writes # <<>>
    /\ phases = <<"read", "crawl", "diff", "write">>

\* C25: at most batch-size workers run at a time, all of the current batch;
\* the batches are the consecutive slices of the list, each index in one;
\* while a batch runs every earlier index has been processed and no later
\* one has started, and between two batches no worker runs.
C25_BoundedConcurrency ==
    pc \in {"crawl_start", "crawl_run", "crawl_returned"} =>
        /\ Cardinality(threads) <= crawl_bs
        /\ \A b \in 0..(total_batches(Len(sku_list)) - 1) :
              batch_indices(Len(sku_list), b)
                  = {t \in 1..Len(sku_list) : BatchOf(t) = b + 1}
        /\ pc # "crawl_run" => threads = {}
        /\ pc = "crawl_run" =>
              /\ threads \subseteq batch_indices(Len(sku_list), batch_num)
              /\ \A t \in 1..Len(sku_list) :
                    /\ BatchOf(t) <= batch_num => lookups[t].n = 1
                    /\ BatchOf(t) > batch_num + 1 => lookups[t].n = 0
                    /\ t \in threads => lookups[t].n = 0

\* C25 witness: the second batch runs with as many workers as the batch
\* size while a third batch waits.
C25_Witness ==
    /\ pc = "crawl_run"
    /\ batch_num = 1
    /\ Cardinality(threads) = crawl_bs
    /\ total_batches(Len(sku_list)) > 2

\* C26: the shared result is never reset while a worker holds the result
\* lock, and a crawl that has returned holds every SKU its own workers
\* stored.
C26_ExclusiveResult ==
    /\ ~shared.raced
    /\ \A c \in Crawls :
          shared.crawls[c].pc = "returned" =>
              shared.crawls[c].stored \subseteq Keys(shared.crawls[c].returned)

\* the anchor text or the href of the element contains the SKU, whatever
\* the case
Mentions(a, sku) ==
    \/ Contains(lower(a.text), lower(sku))
    \/ (a.href # NoHref /\ Contains(lower(a.href), lower(sku)))

\* C27: the link get_price follows from the search page mentions the SKU
\* in its anchor text or its href.
C27_FollowedLinkMentionsSku ==
    link.followed # NoLinkFound =>
        Mentions(link.page[link.followed], link.sku)

\* the batches update_batch wrote, in order
GoodWrites == SelectSeq(writes, LAMBDA w : w.state = "true")

\* C28: when process_updates has returned, updated + failed is the number
\* of SKUs of the crawl result, updated being the rows of the batches
\* written and failed the rows of the batches given up on.
C28_UpdatedPlusFailed ==
    (pc = "done" /\ ProcessUpdatesRan) =>
        /\ Count(ret, "updated") + Count(ret, "failed") = Len(crawl_results)
        /\ Count(ret, "updated") = RowsIn(GoodWrites)
        /\ Count(ret, "failed") = RowsIn(FailedWrites)

\* C28 witness: a run is done with a batch written and a batch given up on.
C28_Witness ==
    /\ pc = "done"
    /\ Count(ret, "updated") > 0
    /\ Count(ret, "failed") > 0

\* no worker is inside the limiter or holds one of its permits
PoolAtRest ==
    /\ threads = {}
    /\ pool.lim.semaphore = max_per_minute
    /\ pool.lim.lock = NoThread
    /\ pool.result_lock = NoThread
    /\ \A t \in 1..Len(sku_list) :
          /\ pool.workers[t].pc = "ended"
          /\ pool.workers[t].acquired = 1
          /\ pool.workers[t].released = 1

\* C29: the crawl returns; no worker releases the limiter more often than
\* it acquired it or acquires it twice; and when the crawl has returned
\* every worker has ended after one acquire and one release, the semaphore
\* holds all its permits and no lock is held.
C29_CrawlTerminates ==
    /\ [](\A t \in 1..Len(sku_list) :
             /\ pool.workers[t].acquired <= 1
             /\ pool.workers[t].released <= pool.workers[t].acquired)
    /\ [](pc = "crawl_returned" => PoolAtRest)
    /\ <>(pc = "crawl_returned")

\* C29 witness: a crawl of two batches has returned, a lookup having ended
\* without a price.
C29_Witness ==
    /\ pc = "crawl_returned"
    /\ batch_num >= 2
    /\ PoolAtRest
    /\ \E t \in 1..Len(sku_list) : ~lookups[t].ok

\* C30: after cancel_sync has returned success, the upload thread started by
\* /sync creates no further product and emits no sync_complete event.
C30_NoWorkAfterCancel == ~sync.late_created /\ ~sync.late_emitted

\* C30, the part about products alone: no product is created after
\* cancel_sync has returned.
C30_NoProductAfterCancel == ~sync.late_created

\* C30, the part about the event alone: no sync_complete is emitted after
\* cancel_sync has returned.
C30_NoEventAfterCancel == ~sync.late_emitted

\* C30, when the join ends with the thread: a cancel_sync that found the
\* thread ended, or none alive, is followed by no product and no event.
C30_QuietWhenJoined ==
    ~sync.timed_out => ~sync.late_created /\ ~sync.late_emitted

\* C30 case: cancel_sync has returned success although its join timed out,
\* and the thread has since created a product and emitted sync_complete.
C30_Case ==
    /\ sync.handler = "returned"
    /\ sync.timed_out
    /\ sync.late_created
    /\ sync.late_emitted

============================================================================
